---- MODULE Spec2Model ----
(***************************************************************************)
(* A model of icemapr.py (IceMAP-R): the input validation of icemapr, its  *)
(* pipeline of Geomatica calls on the temporary .pix database, the cleanup *)
(* of the scratch files, createPCT and the exit status computed by main.   *)
(*                                                                         *)
(* Paths and legend selectors are sequences of one-character strings, so   *)
(* that str.lower() and os.path.splitext() are computed, not assumed.      *)
(* The image is one row of `width` pixels (height 1).  The contents of the *)
(* six 8-bit class channels and of the bitmap segments are modelled; the   *)
(* 32-bit real channels 7..12 are modelled only by which of them have been *)
(* written, and channel 7 by which of its pixels are zero.                 *)
(***************************************************************************)
EXTENDS Integers, Sequences, FiniteSets, TLC

(* ------------------------------ bounds --------------------------------- *)

\* largest image width (pixels in the row) explored by SpecImage
MaxWidth == 2

\* largest mask layer (segment) number a caller supplies
MaxSeg == 2

\* concurrent runs of icemapr explored by SpecConcurrent
NRuns == 2

\* clock ticks per second, and the last tick explored
TicksPerSecond == 2
MaxClock == 4

(* ---------------------- strings: lower, splitext ----------------------- *)

UpperCase == <<"A","B","C","D","E","F","G","H","I","J","K","L","M",
               "N","O","P","Q","R","S","T","U","V","W","X","Y","Z">>

LowerCase == <<"a","b","c","d","e","f","g","h","i","j","k","l","m",
               "n","o","p","q","r","s","t","u","v","w","x","y","z">>

\* str.lower() on one character
LowerChar(c) ==
    IF \E i \in 1..26 : UpperCase[i] = c
    THEN LowerCase[CHOOSE i \in 1..26 : UpperCase[i] = c]
    ELSE c

\* str.lower()
lower(s) == [i \in 1..Len(s) |-> LowerChar(s[i])]

\* index of the last occurrence of character c in s, 0 when there is none
rfind(s, c) ==
    IF \E i \in 1..Len(s) : s[i] = c
    THEN CHOOSE i \in 1..Len(s) : s[i] = c /\ \A j \in (i+1)..Len(s) : s[j] # c
    ELSE 0

\* os.path.splitext(p)[1]: the text from the last dot of the last path
\* component, empty when that component has no dot or only leading dots
splitext(p) ==
    LET sepIndex == rfind(p, "/")
        dotIndex == rfind(p, ".")
    IN IF dotIndex > sepIndex
          /\ \E k \in (sepIndex+1)..(dotIndex-1) : p[k] # "."
       THEN SubSeq(p, dotIndex, Len(p))
       ELSE << >>

freeze == <<"f","r","e","e","z","e">>
thaw == <<"t","h","a","w">>
dotTxt == <<".","t","x","t">>
dotShp == <<".","s","h","p">>

\* the legend selectors a caller passes as inpct
Selectors ==
    { freeze, thaw,
      <<"F","r","e","e","z","e">>, <<"T","H","A","W">>,
      <<"l",".","t","x","t">>, <<"l",".","T","X","T">>,
      <<"l",".","p","c","t">>, <<"i","c","e">> }

\* the mask paths a caller passes as inmask
MaskPaths == { <<"r",".","s","h","p">>, <<"r",".","p","i","x">> }

(* --------------------------- createPCT --------------------------------- *)

Range(lo, hi, r, g, b) == [min |-> lo, max |-> hi, rgb |-> <<r, g, b>>]

thawPct ==
    << Range(0, 0, 0, 0, 0),
       Range(1, 1, 0, 0, 153),
       Range(2, 2, 51, 102, 255),
       Range(3, 4, 204, 204, 255),
       Range(5, 7, 207, 109, 215),
       Range(8, 9, 142, 0, 142),
       Range(10, 255, 255, 255, 255) >>

freezePct ==
    << Range(0, 0, 0, 0, 0),
       Range(1, 2, 0, 0, 102),
       Range(3, 3, 51, 102, 255),
       Range(4, 5, 204, 255, 255),
       Range(6, 7, 255, 204, 255),
       Range(8, 9, 153, 51, 102),
       Range(10, 255, 255, 255, 255) >>

\* a thaw table whose fourth range runs one index too far
thawPctOverlap == [thawPct EXCEPT ![4] = Range(3, 5, 204, 204, 255)]

createPCT_overlap(season) ==
    IF lower(season) = thaw THEN thawPctOverlap ELSE freezePct

\* the text createPCT writes to the temporary legend file
createPCT(season) ==
    IF lower(season) = thaw THEN thawPct ELSE freezePct

\* a caller's well-formed range table, and a text file that is no range table
customPct == << Range(0, 9, 10, 20, 30), Range(10, 255, 255, 255, 255) >>

garbagePct == << Range(7, 3, 0, 0, 0) >>

PctIndex == 0..255

Covering(table, i) == { j \in 1..Len(table) : table[j].min <= i /\ i <= table[j].max }

\* a range table pctread accepts: each range min <= max within 0..255,
\* ranges ascending and non-overlapping
Readable(table) ==
    /\ Len(table) > 0
    /\ \A j \in 1..Len(table) :
          table[j].min \in PctIndex /\ table[j].max \in PctIndex
          /\ table[j].min <= table[j].max
    /\ \A j \in 1..(Len(table) - 1) : table[j].max < table[j+1].min

Max(S) == CHOOSE x \in S : \A y \in S : y <= x

\* the 256-entry table pctread stores: each index takes the colour of the
\* last range of the text that holds it, black when no range holds it
Expand(table) ==
    [i \in PctIndex |->
        IF Covering(table, i) = {} THEN <<0, 0, 0>>
        ELSE table[Max(Covering(table, i))].rgb]

(* ------------------------- program constants --------------------------- *)

chan_fuz1 == 1
chan_sieve == 2
chan_fuz2 == 3
chan_fuzclus3 == 4
chan_mosaic3 == 5
chan_sieve2 == 6
chan_sar == 7
chan_fkuan == 11
chan_fme == 12

\* cim creates six 8-bit channels
dbnc == 6

\* numclus of the three fuzclus calls
numclus1 == 7
numclus2 == 20
numclus3 == 8

\* sieve: polygon size threshold, value excluded from filtering
sthresh == 12
keepvalu == 0

(* ------------------------------- state --------------------------------- *)

VARIABLES
    pc,            \* the statement icemapr (then main) executes next
    ret,           \* icemapr's return value: "none", "False", "True", "1",
                   \* or "raised" when an exception left icemapr
    mainRet,       \* main's return value: "none", "0", "1"
    failedAt,      \* the statement at which icemapr gave up, "none" otherwise
    infileExists,  \* os.path.exists(infile)
    inmaskExists,  \* os.path.exists(inmask)
    inmask,        \* the mask path
    inmasks,       \* the mask layer number (reassigned for a shapefile)
    inpct,         \* the legend selector
    inpctFile,     \* the text of the file at path inpct, << >> when none
    outfile,       \* the file at the output path: "absent", "old", "partial", "new"
    outData,       \* the class map fexport wrote to the output path
    pct2use,       \* "unset", "temp" (createPCT's file) or "inpct"
    pctTmp,        \* the text of createPCT's temporary file, << >> when none
    tmpfile,       \* whether the temporary .pix database exists
    warned,        \* whether the shapefile warning was logged
    dbvs,          \* the polygon layer handed to poly2bit, 0 before the call
    width,         \* dataset.width
    sar,           \* channel 7 per pixel: 0 (zero) or 1 (any other value)
    chan,          \* the 8-bit channels 1..6 of the temporary database
    written,       \* the channels some stage has written
    segs,          \* the segments of the temporary database, in creation order
    segment,       \* icemapr's segment counter
    riverMask,     \* segment numbers recorded by icemapr, 0 before
    class1Mask,
    class7Mask,
    nseg,          \* the PCT segment pctread returned, 0 before
    outAtCall,     \* the file at the output path when icemapr was called
    inmasksAtCall, \* the mask layer number the caller supplied
    clock,         \* datetime.now(), in ticks
    runPc,         \* concurrent runs: "idle", "named", "created", "ended"
    runTmpfile,    \* concurrent runs: the stamp in the run's tmpfile name
    pixFiles       \* the stamps of the icemap_tmpfile_*.pix files in tempDir

concurrentVars == << clock, runPc, runTmpfile, pixFiles >>

icemaprVars == << pc, ret, mainRet, failedAt, infileExists, inmaskExists, inmask,
           inmasks, inpct, inpctFile, outfile, outData, pct2use, pctTmp,
           tmpfile, warned, dbvs, width, sar, chan, written, segs, segment,
           riverMask, class1Mask, class7Mask, nseg, outAtCall,
           inmasksAtCall >>

vars == << icemaprVars, concurrentVars >>

inputVars == << infileExists, inmaskExists, inmask, inpct, inpctFile, width,
                outAtCall, inmasksAtCall, concurrentVars >>

imageVars == << sar, chan, written, segs, segment, riverMask, class1Mask,
                class7Mask, nseg >>

Pixels == 1..width

NoRun ==
    /\ pc = "check_files"
    /\ ret = "none"
    /\ mainRet = "none"
    /\ failedAt = "none"
    /\ outData = << >>
    /\ pct2use = "unset"
    /\ pctTmp = << >>
    /\ tmpfile = FALSE
    /\ warned = FALSE
    /\ dbvs = 0
    /\ sar = << >>
    /\ chan = << >>
    /\ written = {}
    /\ segs = << >>
    /\ segment = 0
    /\ riverMask = 0
    /\ class1Mask = 0
    /\ class7Mask = 0
    /\ nseg = 0
    /\ clock = 0
    /\ runPc = [r \in 1..NRuns |-> "idle"]
    /\ runTmpfile = [r \in 1..NRuns |-> 0]
    /\ pixFiles = {}

\* icemapr is entered from main with any arguments, on any disk contents
Init ==
    /\ NoRun
    /\ infileExists \in BOOLEAN
    /\ inmaskExists \in BOOLEAN
    /\ inmask \in MaskPaths
    /\ inmasks \in 1..MaxSeg
    /\ inpct \in Selectors
    /\ inpctFile \in { << >>, customPct, garbagePct }
    /\ outfile \in { "absent", "old" }
    /\ outAtCall = outfile
    /\ inmasksAtCall = inmasks
    /\ width = 1

\* icemapr is entered with inputs that pass the validation, on images of
\* every width up to MaxWidth
InitImage ==
    /\ NoRun
    /\ infileExists = TRUE
    /\ inmaskExists = TRUE
    /\ inmask = <<"r",".","s","h","p">>
    /\ inmasks = 1
    /\ inpct \in { freeze, thaw }
    /\ inpctFile = << >>
    /\ outfile = "absent"
    /\ outAtCall = outfile
    /\ inmasksAtCall = inmasks
    /\ width \in 1..MaxWidth

(* --------------------------- return values ----------------------------- *)

\* Python truth value of icemapr's return value
Truthy(v) == v \in { "True", "1" }

\* a return statement of icemapr reached at statement `where`
Return(v, where) ==
    /\ ret' = v
    /\ pc' = "returned"
    /\ failedAt' = where

(* ---------------------------- validation ------------------------------- *)

CheckInputFiles ==
    /\ pc = "check_files"
    /\ IF ~infileExists \/ ~inmaskExists
       THEN Return("False", "check_files")
       ELSE pc' = "check_shp" /\ UNCHANGED << ret, failedAt >>
    /\ UNCHANGED << mainRet, inputVars, inmasks, outfile, outData, pct2use,
                    pctTmp, tmpfile, warned, dbvs, imageVars >>

CheckShapefile_keep ==
    /\ pc = "check_shp"
    /\ pc' = "legend"
    /\ warned' = (splitext(inmask) = dotShp /\ inmasks # 1)
    /\ UNCHANGED << ret, mainRet, failedAt, inputVars, inmasks, outfile,
                    outData, pct2use, pctTmp, tmpfile, dbvs, imageVars >>

CheckShapefile ==
    /\ pc = "check_shp"
    /\ pc' = "legend"
    /\ IF splitext(inmask) = dotShp /\ inmasks # 1
       THEN warned' = TRUE /\ inmasks' = 1
       ELSE UNCHANGED << warned, inmasks >>
    /\ UNCHANGED << ret, mainRet, failedAt, inputVars, outfile, outData,
                    pct2use, pctTmp, tmpfile, dbvs, imageVars >>

SelectLegend ==
    /\ pc = "legend"
    /\ IF lower(inpct) \in { freeze, thaw }
       THEN /\ pctTmp' = createPCT(inpct)
            /\ pct2use' = "temp"
            /\ pc' = "check_out"
            /\ UNCHANGED << ret, failedAt >>
       ELSE IF splitext(inpct) = dotTxt
       THEN IF inpctFile = << >>
            THEN Return("False", "legend") /\ UNCHANGED << pctTmp, pct2use >>
            ELSE /\ pct2use' = "inpct"
                 /\ pc' = "check_out"
                 /\ UNCHANGED << ret, failedAt, pctTmp >>
       ELSE Return("1", "legend") /\ UNCHANGED << pctTmp, pct2use >>
    /\ UNCHANGED << mainRet, inputVars, inmasks, outfile, outData, tmpfile,
                    warned, dbvs, imageVars >>

CheckOutput_overwrite ==
    /\ pc = "check_out"
    /\ pc' = "open_dataset"
    /\ UNCHANGED << ret, failedAt, mainRet, inputVars, inmasks, outfile,
                    outData, pct2use, pctTmp, tmpfile, warned, dbvs, imageVars >>

CheckOutput ==
    /\ pc = "check_out"
    /\ IF outfile # "absent"
       THEN Return("False", "check_out")
       ELSE pc' = "open_dataset" /\ UNCHANGED << ret, failedAt >>
    /\ UNCHANGED << mainRet, inputVars, inmasks, outfile, outData, pct2use,
                    pctTmp, tmpfile, warned, dbvs, imageVars >>

(* ------------------- library calls as pure operators ------------------- *)

\* cim: the new database's 8-bit channels; a new PCIDSK file holds zeros
NewChannels == [c \in 1..dbnc |-> [p \in Pixels |-> 0]]

\* fuzclus with an area mask: a cluster number 0..k inside the mask, 0 outside
ClusterOutputs(maskBits, k) ==
    { f \in [Pixels -> 0..k] : \A p \in Pixels : p \notin maskBits => f[p] = 0 }

\* the 4-connected polygon of pixel p in the row img
Polygon(img, p) ==
    { q \in DOMAIN img :
        \A r \in (IF p < q THEN p ELSE q)..(IF p < q THEN q ELSE p) : img[r] = img[p] }

\* the pixels of other polygons that touch polygon R
Border(img, R) ==
    { q \in DOMAIN img \ R : \E p \in R : q = p + 1 \/ q = p - 1 }

\* the neighbouring pixel whose polygon is largest, the lowest value on a tie
LargestNeighbour(img, R) ==
    CHOOSE q \in Border(img, R) :
        \A o \in Border(img, R) :
            \/ Cardinality(Polygon(img, q)) > Cardinality(Polygon(img, o))
            \/ /\ Cardinality(Polygon(img, q)) = Cardinality(Polygon(img, o))
               /\ img[q] <= img[o]

\* a sieve that also filters polygons of the excluded value
sieve_nokeep(img, thresh, keep) ==
    [p \in DOMAIN img |->
        LET R == Polygon(img, p)
        IN IF Cardinality(R) >= thresh \/ Border(img, R) = {}
           THEN img[p]
           ELSE img[LargestNeighbour(img, R)]]

\* sieve, as the call site describes it ("merges image value polygons smaller
\* than a user-specified threshold with the largest neighboring polygon",
\* keepvalu the "value excluded from filtering"): in one pass every polygon
\* smaller than thresh takes the value of its largest neighbouring polygon,
\* except polygons of the value keep
sieve(img, thresh, keep) ==
    [p \in DOMAIN img |->
        LET R == Polygon(img, p)
        IN IF img[p] = keep \/ Cardinality(R) >= thresh \/ Border(img, R) = {}
           THEN img[p]
           ELSE img[LargestNeighbour(img, R)]]

\* thr with tval [lo, hi], complement OFF
thr(img, lo, hi) == { p \in DOMAIN img : lo <= img[p] /\ img[p] <= hi }

\* a fusion whose class-1 test reads "fineA <= 9"
Fusion_le9(coarse, fineA, fineB, prev) ==
    IF coarse > 1 /\ coarse < 7 THEN coarse + 1
    ELSE IF coarse = 1
    THEN IF fineA <= 9 /\ fineA > 0 THEN 1
         ELSE IF fineA >= 9 THEN 2
         ELSE prev
    ELSE IF coarse = 7
    THEN IF fineB >= 5 THEN 9
         ELSE IF fineB < 5 /\ fineB > 0 THEN 8
         ELSE prev
    ELSE prev

\* a fusion whose class-7 branch assigns 10 for fineB >= 5
Fusion_ten(coarse, fineA, fineB, prev) ==
    IF coarse > 1 /\ coarse < 7 THEN coarse + 1
    ELSE IF coarse = 1
    THEN IF fineA < 9 /\ fineA > 0 THEN 1
         ELSE IF fineA >= 9 THEN 2
         ELSE prev
    ELSE IF coarse = 7
    THEN IF fineB >= 5 THEN 10
         ELSE IF fineB < 5 /\ fineB > 0 THEN 8
         ELSE prev
    ELSE prev

\* the model() script of the final classification, for one pixel: prev is
\* the value the output channel holds, kept where no branch assigns
Fusion(coarse, fineA, fineB, prev) ==
    IF coarse > 1 /\ coarse < 7 THEN coarse + 1
    ELSE IF coarse = 1
    THEN IF fineA < 9 /\ fineA > 0 THEN 1
         ELSE IF fineA >= 9 THEN 2
         ELSE prev
    ELSE IF coarse = 7
    THEN IF fineB >= 5 THEN 9
         ELSE IF fineB < 5 /\ fineB > 0 THEN 8
         ELSE prev
    ELSE prev

\* the text of the legend file pct2use names
LegendText == IF pct2use = "temp" THEN pctTmp ELSE inpctFile

(* ------------------------------ pipeline ------------------------------- *)

\* what no pipeline stage touches
StageFrame ==
    UNCHANGED << ret, mainRet, failedAt, inputVars, inmasks, outfile, outData,
                 pct2use, pctTmp, warned >>

Goto(from, to) == pc = from /\ pc' = to

OpenDataset ==
    /\ Goto("open_dataset", "cim")
    /\ StageFrame
    /\ UNCHANGED << tmpfile, dbvs, imageVars >>

\* cim, then the projection copy through ds.BasicWriter and pcimod adding
\* the six 32-bit real channels
Cim ==
    /\ Goto("cim", "iii")
    /\ tmpfile' = TRUE
    /\ chan' = NewChannels
    /\ segs' = << [kind |-> "GEO"] >>
    /\ segment' = 1
    /\ StageFrame
    /\ UNCHANGED << dbvs, sar, written, riverMask, class1Mask, class7Mask, nseg >>

Iii ==
    /\ Goto("iii", "poly2bit")
    /\ sar' \in [Pixels -> {0, 1}]
    /\ written' = written \cup { chan_sar }
    /\ StageFrame
    /\ UNCHANGED << tmpfile, dbvs, chan, segs, segment, riverMask, class1Mask,
                    class7Mask, nseg >>

Poly2bit ==
    /\ Goto("poly2bit", "crop")
    /\ dbvs' = inmasks
    /\ \E bits \in SUBSET Pixels :
          segs' = Append(segs, [kind |-> "BIT", bits |-> bits])
    /\ segment' = segment + 1
    /\ riverMask' = segment + 1
    /\ StageFrame
    /\ UNCHANGED << tmpfile, sar, chan, written, class1Mask, class7Mask, nseg >>

Crop ==
    /\ Goto("crop", "tex")
    /\ segs' = [segs EXCEPT ![riverMask].bits = { p \in @ : sar[p] # 0 }]
    /\ StageFrame
    /\ UNCHANGED << tmpfile, dbvs, sar, chan, written, segment, riverMask,
                    class1Mask, class7Mask, nseg >>

\* a texture step that hands over to the coarse clustering, leaving out the
\* speckle and median filters
Tex_skipsFilters ==
    /\ Goto("tex", "fuzclus1")
    /\ written' = written \cup { 8, 9, 10 }
    /\ StageFrame
    /\ UNCHANGED << tmpfile, dbvs, sar, chan, segs, segment, riverMask,
                    class1Mask, class7Mask, nseg >>

Tex ==
    /\ Goto("tex", "fkuan")
    /\ written' = written \cup { 8, 9, 10 }
    /\ StageFrame
    /\ UNCHANGED << tmpfile, dbvs, sar, chan, segs, segment, riverMask,
                    class1Mask, class7Mask, nseg >>

\* fkuan, then mcd naming its channel
Fkuan ==
    /\ Goto("fkuan", "fme")
    /\ written' = written \cup { chan_fkuan }
    /\ StageFrame
    /\ UNCHANGED << tmpfile, dbvs, sar, chan, segs, segment, riverMask,
                    class1Mask, class7Mask, nseg >>

\* fme, then mcd naming its channel
Fme ==
    /\ Goto("fme", "fuzclus1")
    /\ written' = written \cup { chan_fme }
    /\ StageFrame
    /\ UNCHANGED << tmpfile, dbvs, sar, chan, segs, segment, riverMask,
                    class1Mask, class7Mask, nseg >>

Fuzclus1 ==
    /\ Goto("fuzclus1", "sieve1")
    /\ \E out \in ClusterOutputs(segs[riverMask].bits, numclus1) :
          chan' = [chan EXCEPT ![chan_fuz1] = out]
    /\ written' = written \cup { chan_fuz1 }
    /\ StageFrame
    /\ UNCHANGED << tmpfile, dbvs, sar, segs, segment, riverMask, class1Mask,
                    class7Mask, nseg >>

Sieve1 ==
    /\ Goto("sieve1", "thr1")
    /\ chan' = [chan EXCEPT ![chan_sieve] = sieve(chan[chan_fuz1], sthresh, keepvalu)]
    /\ written' = written \cup { chan_sieve }
    /\ StageFrame
    /\ UNCHANGED << tmpfile, dbvs, sar, segs, segment, riverMask, class1Mask,
                    class7Mask, nseg >>

Thr1 ==
    /\ Goto("thr1", "fuzclus2")
    /\ segs' = Append(segs, [kind |-> "BIT", bits |-> thr(chan[chan_sieve], 1, 1)])
    /\ segment' = segment + 1
    /\ class1Mask' = segment + 1
    /\ StageFrame
    /\ UNCHANGED << tmpfile, dbvs, sar, chan, written, riverMask, class7Mask, nseg >>

Fuzclus2 ==
    /\ Goto("fuzclus2", "thr7")
    /\ \E out \in ClusterOutputs(segs[class1Mask].bits, numclus2) :
          chan' = [chan EXCEPT ![chan_fuz2] = out]
    /\ written' = written \cup { chan_fuz2 }
    /\ StageFrame
    /\ UNCHANGED << tmpfile, dbvs, sar, segs, segment, riverMask, class1Mask,
                    class7Mask, nseg >>

Thr7 ==
    /\ Goto("thr7", "fuzclus3")
    /\ segs' = Append(segs, [kind |-> "BIT", bits |-> thr(chan[chan_sieve], 7, 7)])
    /\ segment' = segment + 1
    /\ class7Mask' = segment + 1
    /\ StageFrame
    /\ UNCHANGED << tmpfile, dbvs, sar, chan, written, riverMask, class1Mask, nseg >>

Fuzclus3 ==
    /\ Goto("fuzclus3", "fusion")
    /\ \E out \in ClusterOutputs(segs[class7Mask].bits, numclus3) :
          chan' = [chan EXCEPT ![chan_fuzclus3] = out]
    /\ written' = written \cup { chan_fuzclus3 }
    /\ StageFrame
    /\ UNCHANGED << tmpfile, dbvs, sar, segs, segment, riverMask, class1Mask,
                    class7Mask, nseg >>

\* model() with the final-classification script, then mcd naming its channel
FinalClassification ==
    /\ Goto("fusion", "sieve2")
    /\ chan' = [chan EXCEPT ![chan_mosaic3] =
                   [p \in Pixels |->
                       Fusion(chan[chan_sieve][p], chan[chan_fuz2][p],
                              chan[chan_fuzclus3][p], chan[chan_mosaic3][p])]]
    /\ written' = written \cup { chan_mosaic3 }
    /\ StageFrame
    /\ UNCHANGED << tmpfile, dbvs, sar, segs, segment, riverMask, class1Mask,
                    class7Mask, nseg >>

\* a second sieve that is handed the output path as its output file
Sieve2_exports ==
    /\ Goto("sieve2", "pctread")
    /\ outfile' = "new"
    /\ outData' = sieve(chan[chan_mosaic3], sthresh, keepvalu)
    /\ UNCHANGED << ret, mainRet, failedAt, inputVars, inmasks, pct2use, pctTmp,
                    warned, tmpfile, dbvs, imageVars >>

Sieve2 ==
    /\ Goto("sieve2", "pctread")
    /\ chan' = [chan EXCEPT ![chan_sieve2] = sieve(chan[chan_mosaic3], sthresh, keepvalu)]
    /\ written' = written \cup { chan_sieve2 }
    /\ StageFrame
    /\ UNCHANGED << tmpfile, dbvs, sar, segs, segment, riverMask, class1Mask,
                    class7Mask, nseg >>

\* pctread succeeds on a legend text that is a range table; the new PCT
\* segment is recorded by the text it was read from (Expand gives its entries)
Pctread ==
    /\ Goto("pctread", "fexport")
    /\ Readable(LegendText)
    /\ segs' = Append(segs, [kind |-> "PCT", text |-> LegendText])
    /\ nseg' = Len(segs) + 1
    /\ StageFrame
    /\ UNCHANGED << tmpfile, dbvs, sar, chan, written, segment, riverMask,
                    class1Mask, class7Mask >>

Fexport ==
    /\ Goto("fexport", "cleanup")
    /\ outfile' = "new"
    /\ outData' = chan[chan_sieve2]
    /\ UNCHANGED << ret, mainRet, failedAt, inputVars, inmasks, pct2use, pctTmp,
                    warned, tmpfile, dbvs, imageVars >>

\* the stages from the try statement up to pctread
StagesBeforeExport ==
    { "open_dataset", "cim", "iii", "poly2bit", "crop", "tex", "fkuan", "fme",
      "fuzclus1", "sieve1", "thr1", "fuzclus2", "thr7", "fuzclus3", "fusion",
      "sieve2", "pctread" }

\* a stage raises (PCIException or any Exception): the except clauses
\* return False
StageFail ==
    /\ pc \in StagesBeforeExport
    /\ Return("False", pc)
    /\ UNCHANGED << mainRet, inputVars, inmasks, outfile, outData, pct2use,
                    pctTmp, tmpfile, warned, dbvs, imageVars >>

\* fexport raises: what it leaves at the output path is not known
FexportFail ==
    /\ pc = "fexport"
    /\ Return("False", "fexport")
    /\ outfile' \in { "absent", "partial" }
    /\ UNCHANGED << mainRet, inputVars, inmasks, outData, pct2use, pctTmp,
                    tmpfile, warned, dbvs, imageVars >>

\* the removal of the temporary files; an os.remove that raises ends the
\* try block, and the bare except only logs
Cleanup ==
    /\ pc = "cleanup"
    /\ \E raises \in { "none", "pct2use", "tmpfile" } :
          LET removePct == inpct \in { freeze, thaw }
              pctRaised == removePct /\ raises = "pct2use"
          IN /\ pctTmp' = IF removePct /\ ~pctRaised THEN << >> ELSE pctTmp
             /\ tmpfile' = IF pctRaised \/ raises = "tmpfile" THEN tmpfile ELSE FALSE
    /\ ret' = "True"
    /\ pc' = "returned"
    /\ UNCHANGED << mainRet, failedAt, inputVars, inmasks, outfile, outData,
                    pct2use, warned, dbvs, imageVars >>

\* main: "if not icemapr(...): return 1", else return 0
MainReturn ==
    /\ pc = "returned"
    /\ pc' = "exited"
    /\ mainRet' = IF ~Truthy(ret) THEN "1" ELSE "0"
    /\ UNCHANGED << ret, failedAt, inputVars, inmasks, outfile, outData,
                    pct2use, pctTmp, tmpfile, warned, dbvs, imageVars >>

(* --------------------------- specifications ---------------------------- *)

Stages ==
    \/ OpenDataset \/ Cim \/ Iii \/ Poly2bit \/ Crop \/ Tex \/ Fkuan \/ Fme
    \/ Fuzclus1 \/ Sieve1 \/ Thr1 \/ Fuzclus2 \/ Thr7 \/ Fuzclus3
    \/ FinalClassification \/ Sieve2 \/ Pctread \/ Fexport

Validation == CheckInputFiles \/ CheckShapefile \/ SelectLegend \/ CheckOutput

Next ==
    \/ Validation
    \/ Stages
    \/ StageFail
    \/ FexportFail
    \/ Cleanup
    \/ MainReturn

Spec == Init /\ [][Next]_vars

\* the runs in which no library call raises, up to the export, on images of
\* every width
NextImage == Validation \/ Stages

SpecImage == InitImage /\ [][NextImage]_vars

\* createPCT raises (mkstemp, open or write fails): the call on line 123 is
\* outside every try statement of icemapr, so the exception leaves icemapr;
\* main's "except Exception" then returns 1
CreatePCTRaises ==
    /\ pc = "legend"
    /\ lower(inpct) \in { freeze, thaw }
    /\ Return("raised", "legend")
    /\ UNCHANGED << mainRet, inputVars, inmasks, outfile, outData, pct2use,
                    pctTmp, tmpfile, warned, dbvs, imageVars >>

\* the runs of Spec, and those in which the validation meets an unexpected
\* error
NextFaults == Next \/ CreatePCTRaises

SpecFaults == Init /\ [][NextFaults]_vars

(* --------------------------- concurrent runs --------------------------- *)

\* Several runs of icemapr on one machine, each reduced to the life of its
\* temporary database: the name is chosen, cim creates the file, and the run
\* ends by removing it (success) or by leaving it (a stage raised).

Runs == 1..NRuns

\* datetime.now().strftime("%y%m%d_%H%M%S"): the time cut to whole seconds
strftime(t) == t \div TicksPerSecond

InitConcurrent ==
    /\ NoRun
    /\ infileExists = TRUE
    /\ inmaskExists = TRUE
    /\ inmask = <<"r",".","s","h","p">>
    /\ inmasks = 1
    /\ inpct = freeze
    /\ inpctFile = << >>
    /\ outfile = "absent"
    /\ outAtCall = outfile
    /\ inmasksAtCall = inmasks
    /\ width = 1

Tick ==
    /\ clock < MaxClock
    /\ clock' = clock + 1
    /\ UNCHANGED << icemaprVars, runPc, runTmpfile, pixFiles >>

\* tmpfile = os.path.join(tempDir, "icemap_tmpfile_{0}.pix".format(...))
RunTmpfile(r) ==
    /\ runPc[r] = "idle"
    /\ runPc' = [runPc EXCEPT ![r] = "named"]
    /\ runTmpfile' = [runTmpfile EXCEPT ![r] = strftime(clock)]
    /\ UNCHANGED << icemaprVars, clock, pixFiles >>

\* cim(ifile, ...) creates the file of that name
RunCim(r) ==
    /\ runPc[r] = "named"
    /\ runPc' = [runPc EXCEPT ![r] = "created"]
    /\ pixFiles' = pixFiles \cup { runTmpfile[r] }
    /\ UNCHANGED << icemaprVars, clock, runTmpfile >>

\* the run succeeded: os.remove(tmpfile)
RunRemove(r) ==
    /\ runPc[r] = "created"
    /\ runPc' = [runPc EXCEPT ![r] = "ended"]
    /\ pixFiles' = pixFiles \ { runTmpfile[r] }
    /\ UNCHANGED << icemaprVars, clock, runTmpfile >>

\* a stage raised: return False, the file stays
RunFail(r) ==
    /\ runPc[r] \in { "named", "created" }
    /\ runPc' = [runPc EXCEPT ![r] = "ended"]
    /\ UNCHANGED << icemaprVars, clock, runTmpfile, pixFiles >>

NextConcurrent ==
    \/ Tick
    \/ \E r \in Runs : RunTmpfile(r)
    \/ \E r \in Runs : RunCim(r)
    \/ \E r \in Runs : RunRemove(r)
    \/ \E r \in Runs : RunFail(r)

SpecConcurrent == InitConcurrent /\ [][NextConcurrent]_vars

(* ------------------------------- claims -------------------------------- *)

ValidationSteps == { "check_files", "check_shp", "legend", "check_out" }

Ended == pc \in { "returned", "exited" }

BuiltinLegend == lower(inpct) \in { freeze, thaw }

\* the selector names an existing .txt file that holds a range table
UsableLegendFile == splitext(inpct) = dotTxt /\ Readable(inpctFile)

InputsValid == infileExists /\ inmaskExists /\ (BuiltinLegend \/ UsableLegendFile)

NoStageRan ==
    /\ tmpfile = FALSE
    /\ chan = << >>
    /\ segs = << >>
    /\ written = {}
    /\ dbvs = 0
    /\ outData = << >>

\* C1: when the output path exists at the call and the input raster, the mask
\* and the legend are valid, icemapr never enters the pipeline, no stage has
\* run, the file at the output path stays the one that was there, and the
\* value returned is False.
C1_RefusesExistingOutput ==
    (outAtCall = "old" /\ InputsValid) =>
        /\ pc \in ValidationSteps \cup { "returned", "exited" }
        /\ NoStageRan
        /\ outfile = "old"
        /\ (Ended => ret = "False" /\ failedAt = "check_out")

C1_Witness ==
    /\ pc = "exited"
    /\ outAtCall = "old"
    /\ InputsValid
    /\ ret = "False"
    /\ failedAt = "check_out"
    /\ outfile = "old"

\* C2: for a legend selector that is neither a built-in name nor a usable
\* range-table file, icemapr's return value is falsy and main returns 1.
C2_InvalidLegendFails ==
    (pc = "exited" /\ ~BuiltinLegend /\ ~UsableLegendFile) =>
        (~Truthy(ret) /\ mainRet = "1")

\* the rule table of the fusion step as the claim states it
FusionTable(coarse, fineA, fineB) ==
    CASE coarse \in 2..6 -> coarse + 1
      [] coarse = 1 /\ fineA \in 1..8 -> 1
      [] coarse = 1 /\ fineA >= 9 -> 2
      [] coarse = 7 /\ fineB >= 5 -> 9
      [] coarse = 7 /\ fineB \in 1..4 -> 8
      [] OTHER -> 0

\* C3: no stage writes the fusion output channel before the fusion step, so
\* it holds zeros when the step starts; after the step every pixel holds the
\* rule table's value for its coarse class in 0..7, fine class A in 0..20 and
\* fine class B in 0..8; and the script started on a zero channel computes
\* the rule table on that whole domain.
C3_FusionIsTheRuleTable ==
    /\ (pc = "fusion" =>
            /\ chan_mosaic3 \notin written
            /\ \A p \in Pixels : chan[chan_mosaic3][p] = 0)
    /\ (chan_mosaic3 \in written =>
            \A p \in Pixels :
                /\ chan[chan_sieve][p] \in 0..numclus1
                /\ chan[chan_fuz2][p] \in 0..numclus2
                /\ chan[chan_fuzclus3][p] \in 0..numclus3
                /\ chan[chan_mosaic3][p] =
                       FusionTable(chan[chan_sieve][p], chan[chan_fuz2][p],
                                   chan[chan_fuzclus3][p]))
    /\ (pc = "open_dataset" =>
            \A c \in 0..numclus1, a \in 0..numclus2, b \in 0..numclus3 :
                Fusion(c, a, b, 0) = FusionTable(c, a, b))

C3_Witness ==
    /\ pc = "sieve2"
    /\ \E p \in Pixels :
          /\ chan[chan_sieve][p] = 1
          /\ chan[chan_fuz2][p] = 0
          /\ chan[chan_mosaic3][p] = 0
    /\ \E q \in Pixels :
          /\ chan[chan_sieve][q] = 7
          /\ chan[chan_fuzclus3][q] = 5
          /\ chan[chan_mosaic3][q] = 9

\* C4: every pixel of the second sieve's output, and of the class map
\* exported from it, has a value in 0..9.
C4_FinalDomain ==
    /\ (chan_sieve2 \in written => \A p \in Pixels : chan[chan_sieve2][p] \in 0..9)
    /\ (outfile = "new" => \A p \in DOMAIN outData : outData[p] \in 0..9)

C4_Witness ==
    /\ outfile = "new"
    /\ \E p \in DOMAIN outData : outData[p] = 9
    /\ chan[chan_sieve2] # chan[chan_mosaic3]

\* C5: the coarse clustering is 0 outside the river mask, the class-1 and
\* class-7 submasks lie inside the river mask, neither sieve turns a 0 into
\* another value, and every pixel of the exported class map outside the
\* river mask is 0.
C5_ZeroOutsideMask ==
    /\ (chan_fuz1 \in written =>
            \A p \in Pixels \ segs[riverMask].bits : chan[chan_fuz1][p] = 0)
    /\ (chan_sieve \in written =>
            \A p \in Pixels : chan[chan_fuz1][p] = 0 => chan[chan_sieve][p] = 0)
    /\ (class1Mask # 0 => segs[class1Mask].bits \subseteq segs[riverMask].bits)
    /\ (class7Mask # 0 => segs[class7Mask].bits \subseteq segs[riverMask].bits)
    /\ (chan_sieve2 \in written =>
            \A p \in Pixels : chan[chan_mosaic3][p] = 0 => chan[chan_sieve2][p] = 0)
    /\ (outfile = "new" =>
            \A p \in Pixels \ segs[riverMask].bits : outData[p] = 0)

C5_Witness ==
    /\ outfile = "new"
    /\ \E p \in Pixels : p \notin segs[riverMask].bits /\ outData[p] = 0
    /\ \E q \in segs[riverMask].bits : chan[chan_fuz1][q] # 0

\* C6: up to and including the start of the export the output path holds
\* what it held at the call; a new file is there only once the export, the
\* last stage, has completed; a run that failed in a stage before the export
\* leaves no file at the output path.
C6_OutputOnlyByExport ==
    /\ (pc \in ValidationSteps \cup StagesBeforeExport \cup { "fexport" } =>
            outfile = outAtCall /\ outData = << >>)
    /\ (outfile = "new" => pc \in { "cleanup", "returned", "exited" })
    /\ (Ended /\ failedAt \in StagesBeforeExport => outfile = "absent")

C6_Witness ==
    /\ pc = "exited"
    /\ failedAt = "sieve2"
    /\ tmpfile = TRUE
    /\ outfile = "absent"

\* C7: when the validation fails, neither the temporary database nor a
\* temporary legend file exists after the return, and the output path is
\* untouched.
C7_ValidationFailureLeavesNothing ==
    (Ended /\ failedAt \in ValidationSteps) =>
        /\ tmpfile = FALSE
        /\ pctTmp = << >>
        /\ outfile = outAtCall

Bounds(table) == [j \in 1..Len(table) |-> << table[j].min, table[j].max >>]

\* C9: the legend text createPCT wrote holds the ranges of the chosen
\* built-in legend; they are ascending and non-overlapping, every index
\* 0..255 lies in exactly one of them, the expansion has 256 entries, and
\* every index of a range carries that range's colour.
C9_BuiltinLegendWellFormed ==
    (pc = "check_out" /\ pct2use = "temp") =>
        /\ Bounds(pctTmp) =
              IF lower(inpct) = thaw
              THEN << <<0,0>>, <<1,1>>, <<2,2>>, <<3,4>>, <<5,7>>, <<8,9>>, <<10,255>> >>
              ELSE << <<0,0>>, <<1,2>>, <<3,3>>, <<4,5>>, <<6,7>>, <<8,9>>, <<10,255>> >>
        /\ \A j \in 1..Len(pctTmp) : pctTmp[j].min <= pctTmp[j].max
        /\ \A j \in 1..(Len(pctTmp) - 1) : pctTmp[j].max < pctTmp[j+1].min
        /\ \A i \in PctIndex : Cardinality(Covering(pctTmp, i)) = 1
        /\ Cardinality(DOMAIN Expand(pctTmp)) = 256
        /\ \A j \in 1..Len(pctTmp) :
              \A i \in pctTmp[j].min..pctTmp[j].max : Expand(pctTmp)[i] = pctTmp[j].rgb

C9_Witness ==
    /\ pc = "check_out"
    /\ pct2use = "temp"
    /\ inpct = <<"T","H","A","W">>
    /\ pctTmp = thawPct
    /\ Expand(pctTmp)[7] = <<207, 109, 215>>

\* C10: at the end of a run that entered the pipeline, successful or failed
\* in a stage, neither the temporary database nor the temporary legend file
\* exists.
C10_ScratchDiscarded ==
    (Ended /\ failedAt \notin ValidationSteps) =>
        /\ tmpfile = FALSE
        /\ pctTmp = << >>

\* the stages in the order of the source text; the position of a statement
StageOrder ==
    << "cim", "iii", "poly2bit", "crop", "tex", "fkuan", "fme", "fuzclus1",
       "sieve1", "thr1", "fuzclus2", "thr7", "fuzclus3", "fusion", "sieve2",
       "pctread", "fexport" >>

StageIndex(name) == CHOOSE i \in 1..Len(StageOrder) : StageOrder[i] = name

\* what stage i leaves behind once it has completed (the crop, which only
\* clears bits of the river mask, is seen through its successor)
Completed(i) ==
    CASE StageOrder[i] = "cim" -> chan # << >>
      [] StageOrder[i] = "iii" -> chan_sar \in written
      [] StageOrder[i] = "poly2bit" -> riverMask # 0 /\ dbvs # 0
      [] StageOrder[i] = "crop" -> riverMask # 0 /\ (pc = "tex" \/ 8 \in written \/ failedAt = "tex")
      [] StageOrder[i] = "tex" -> 8 \in written
      [] StageOrder[i] = "fkuan" -> chan_fkuan \in written
      [] StageOrder[i] = "fme" -> chan_fme \in written
      [] StageOrder[i] = "fuzclus1" -> chan_fuz1 \in written
      [] StageOrder[i] = "sieve1" -> chan_sieve \in written
      [] StageOrder[i] = "thr1" -> class1Mask # 0
      [] StageOrder[i] = "fuzclus2" -> chan_fuz2 \in written
      [] StageOrder[i] = "thr7" -> class7Mask # 0
      [] StageOrder[i] = "fuzclus3" -> chan_fuzclus3 \in written
      [] StageOrder[i] = "fusion" -> chan_mosaic3 \in written
      [] StageOrder[i] = "sieve2" -> chan_sieve2 \in written
      [] StageOrder[i] = "pctread" -> nseg # 0
      [] StageOrder[i] = "fexport" -> outfile = "new"

\* exactly the stages before position i have completed
CompletedUpTo(i) ==
    \A j \in 1..Len(StageOrder) : Completed(j) <=> j < i

\* C11: the stages complete in the order of StageOrder: when a stage is
\* about to start, exactly its predecessors have completed; when a stage
\* raises, exactly its predecessors have completed, none of its successors
\* ever runs and icemapr returns False; icemapr returns True only with every
\* stage, the export included, completed.
C11_StagesInOrder ==
    /\ (pc \in ValidationSteps \cup { "open_dataset" } => CompletedUpTo(1))
    /\ \A i \in 1..Len(StageOrder) :
          /\ (pc = StageOrder[i] => CompletedUpTo(i))
          /\ (failedAt = StageOrder[i] => Ended /\ ret = "False" /\ CompletedUpTo(i))
    /\ (failedAt \in ValidationSteps \cup { "open_dataset" } =>
            Ended /\ ret # "True" /\ CompletedUpTo(1))
    /\ (pc = "cleanup" \/ ret = "True" =>
            failedAt = "none" /\ CompletedUpTo(Len(StageOrder) + 1))
    /\ (Ended /\ failedAt = "none" => ret = "True")

C11_Witness ==
    /\ pc = "exited"
    /\ failedAt = "thr7"
    /\ ret = "False"
    /\ Completed(StageIndex("fuzclus2"))
    /\ ~Completed(StageIndex("thr7"))
    /\ outfile = "absent"

\* a run that has chosen its tmpfile name and has not returned
Live(r) == runPc[r] \in { "named", "created" }

\* C12: two runs that are live at the same time never have the same
\* temporary database path.
C12_IsolatedScratch ==
    \A r1 \in Runs, r2 \in Runs :
        (r1 # r2 /\ Live(r1) /\ Live(r2)) => runTmpfile[r1] # runTmpfile[r2]

\* C13: no exception leaves icemapr: an error raised in the validation
\* (createPCT included) or in a stage ends in the return of a failure value.
C13_NoErrorPropagates ==
    /\ ret # "raised"
    /\ (Ended /\ failedAt \in StagesBeforeExport \cup { "fexport" } => ret = "False")

====
